---- MODULE Spec2Model ----
(***************************************************************************)
(* Life Cell Simulator (src/life_simulator.py): Conway's Game of Life with *)
(* a text front end (TextInterface) and a graphical one (GUIInterface).    *)
(*                                                                         *)
(* The state is the simulator's grid and dimensions, the front end's       *)
(* paused / running flags and update rate, the position of the front-end   *)
(* loop, and, while next_generation runs, the grid it is building.         *)
(***************************************************************************)
EXTENDS Integers, FiniteSets, Sequences, TLC

\* ---------------------------------------------------------------- bounds
\* Largest --rows / --cols argument of the interactive runs (Spec).
MaxRows == 2
MaxCols == 2
\* Largest --rows / --cols argument of the unattended runs (SpecPass).
PassMaxRows == 3
PassMaxCols == 3
\* Largest --rows / --cols argument of the runs from a pattern (SpecPat).
PatMaxRows == 5
PatMaxCols == 5

\* ------------------------------------------------------------- constants
\* SIMULATION_CONFIG
min_speed == 1
max_speed == 60
speed_increment == 5
default_fps == 10
min(a, b) == IF a <= b THEN a ELSE b
max(a, b) == IF a >= b THEN a ELSE b

VARIABLES
    iface,      \* which front end main() started: "text" or "gui"
    rows, cols, \* LifeSimulator.rows, LifeSimulator.cols
    grid,       \* LifeSimulator.grid: row index -> column index -> 0 / 1
    new_grid,   \* next_generation's local new_grid (<< >> outside the pass)
    x, y,       \* next_generation's loop indices (0 outside the pass)
    pc,         \* position of the front-end loop
    paused,     \* TextInterface.paused / GUISettings.paused
    running,    \* TextInterface.running / GUIInterface.running
    rate,       \* TextInterface.update_rate / GUISettings.fps
    key         \* the key / event dispatched last by this iteration's
                \* input step ("none" from the advance step on)

vars == <<iface, rows, cols, grid, new_grid, x, y, pc, paused, running, rate, key>>

\* ------------------------------------------------------------------ keys
NoKey == "none"
\* Characters is_key_pressed() can return ("ESC" is "\x1b", "x" any
\* character without a binding).
TextKeys == {" ", "r", "R", "c", "C", "ESC", "+", "=", "-", "x"}
\* pygame events: QUIT, KEYDOWN with a key constant, or any other event.
GuiEvents == {"QUIT", "K_SPACE", "K_r", "K_c", "K_UP", "K_PLUS", "K_KP_PLUS",
              "K_DOWN", "K_MINUS", "K_KP_MINUS", "K_ESCAPE", "K_other",
              "OTHER_EVENT"}

\* ------------------------------------------------------------------ grid
\* range(n)
range(n) == 0 .. (n - 1)

\* The grids of r rows and c columns with cells 0 / 1.
Grids(r, c) == [range(r) -> [range(c) -> {0, 1}]]

\* [[0 for _ in range(c)] for _ in range(r)]
zero_grid(r, c) == [i \in range(r) |-> [j \in range(c) |-> 0]]

\* create_grid ignoring randomize: always random.
create_grid_random(randomize) == Grids(rows, cols)

\* create_grid ignoring randomize: always zeroed.
create_grid_zero(randomize) == {zero_grid(rows, cols)}

\* LifeSimulator.create_grid(randomize): the set of grids it can return
\* (random.choice([0, 1]) per cell when randomize).
create_grid(randomize) ==
    IF randomize THEN Grids(rows, cols) ELSE {zero_grid(rows, cols)}

\* directions without the diagonals.
directions_orthogonal == << <<0 - 1, 0>>, <<0, 0 - 1>>, <<0, 1>>, <<1, 0>> >>

\* directions of count_neighbors, in the order of the source
directions == << <<0 - 1, 0 - 1>>, <<0 - 1, 0>>, <<0 - 1, 1>>,
                 <<0, 0 - 1>>,               <<0, 1>>,
                 <<1, 0 - 1>>,     <<1, 0>>, <<1, 1>> >>

\* neighbor_term on a toroidal grid (positions wrap around the edges).
neighbor_term_wrap(cx, cy, d) ==
    grid[(cx + d[1]) % rows][(cy + d[2]) % cols]

\* One iteration of count_neighbors' loop: the contribution of direction d.
neighbor_term(cx, cy, d) ==
    LET nx == cx + d[1]
        ny == cy + d[2]
    IN  IF 0 <= nx /\ nx < rows /\ 0 <= ny /\ ny < cols
        THEN grid[nx][ny]
        ELSE 0

RECURSIVE count_from(_, _, _)
count_from(cx, cy, i) ==
    IF i > Len(directions) THEN 0
    ELSE neighbor_term(cx, cy, directions[i]) + count_from(cx, cy, i + 1)

\* LifeSimulator.count_neighbors(x, y), reading self.grid
count_neighbors(cx, cy) == count_from(cx, cy, 1)

\* new_cell with birth on 2 or 3 neighbours.
new_cell_birth2(cx, cy) ==
    IF count_neighbors(cx, cy) \in {2, 3} THEN 1 ELSE 0

\* new_cell with birth on up to 3 neighbours.
new_cell_birth_le3(cx, cy) ==
    LET neighbors == count_neighbors(cx, cy)
    IN  IF grid[cx][cy] = 1
        THEN (IF neighbors \in {2, 3} THEN 1 ELSE 0)
        ELSE (IF neighbors <= 3 THEN 1 ELSE 0)

\* new_cell with survival on up to 3 neighbours.
new_cell_survive_le3(cx, cy) ==
    LET neighbors == count_neighbors(cx, cy)
    IN  IF grid[cx][cy] = 1
        THEN (IF neighbors <= 3 THEN 1 ELSE 0)
        ELSE (IF neighbors = 3 THEN 1 ELSE 0)

\* new_cell with survival on exactly 2 neighbours.
new_cell_survive2(cx, cy) ==
    LET neighbors == count_neighbors(cx, cy)
    IN  IF grid[cx][cy] = 1
        THEN (IF neighbors = 2 THEN 1 ELSE 0)
        ELSE (IF neighbors = 3 THEN 1 ELSE 0)

\* The value next_generation stores in new_grid[x][y].
new_cell(cx, cy) ==
    LET neighbors == count_neighbors(cx, cy)
    IN  IF grid[cx][cy] = 1
        THEN (IF neighbors \in {2, 3} THEN 1 ELSE 0)
        ELSE (IF neighbors = 3 THEN 1 ELSE 0)

\* ------------------------------------------------------------------ init
\* argparse accepts any integer for --rows and --cols.
DimArgs(m) == {0 - 1, 0} \cup (1 .. m)

\* pygame.display.set_mode raises pygame.error for a negative size, and
\* main() then falls back to the text front end.
Ifaces(r, c) == IF r < 0 \/ c < 0 THEN {"text"} ELSE {"text", "gui"}

\* The first statement of each front end's loop body.
loop_top(m) == IF m = "text" THEN "display" ELSE "events"

\* Construct with a front end that starts paused.
ConstructPaused(maxr, maxc, modes) ==
    /\ rows \in DimArgs(maxr)
    /\ cols \in DimArgs(maxc)
    /\ grid \in create_grid(TRUE)
    /\ iface \in (Ifaces(rows, cols) \cap modes)
    /\ new_grid = << >>
    /\ x = 0
    /\ y = 0
    /\ pc = loop_top(iface)
    /\ paused = TRUE
    /\ running = TRUE
    /\ rate = default_fps
    /\ key = NoKey

\* main(): LifeSimulator(args.rows, args.cols), then the chosen front end.
Construct(maxr, maxc, modes) ==
    /\ rows \in DimArgs(maxr)
    /\ cols \in DimArgs(maxc)
    /\ grid \in create_grid(TRUE)
    /\ iface \in (Ifaces(rows, cols) \cap modes)
    /\ new_grid = << >>
    /\ x = 0
    /\ y = 0
    /\ pc = loop_top(iface)
    /\ paused = FALSE
    /\ running = TRUE
    /\ rate = default_fps
    /\ key = NoKey

Init == Construct(MaxRows, MaxCols, {"text", "gui"})

\* ---------------------------------------------------------- text front end
\* after_advance with the text loop rendering right after the advance step.
after_advance_render(m) == IF m = "text" THEN "display" ELSE "draw"

\* The statement after the advance step of each front end's loop body.
after_advance(m) == IF m = "text" THEN "sleep" ELSE "draw"

\* toggle that only ever pauses.
toggle_set(p) == TRUE

\* `paused = not paused` of either front end
toggle(p) == ~p

\* text_speed_up stepping by the configured increment.
text_speed_up_config(r) == min(max_speed, r + speed_increment)

\* "+" / "=" and "-" of TextInterface.handle_input
text_speed_up(r) == min(max_speed, r + 1)
text_speed_down(r) == max(min_speed, r - 1)

\* TextInterface.display_grid: prints the grid and the controls.
Display ==
    /\ iface = "text"
    /\ pc = "display"
    /\ pc' = "input"
    /\ UNCHANGED <<iface, rows, cols, grid, new_grid, x, y, paused, running, rate, key>>

\* TextInterface.handle_input with is_key_pressed() returning k.
HandleInput(k) ==
    /\ iface = "text"
    /\ pc = "input"
    /\ pc' = "advance"
    /\ key' = k
    /\ paused' = IF k = " " THEN toggle(paused) ELSE paused
    /\ grid' \in (IF k \in {"r", "R"} THEN create_grid(TRUE)
                  ELSE IF k \in {"c", "C"} THEN create_grid(FALSE)
                  ELSE {grid})
    /\ running' = IF k = "ESC" THEN FALSE ELSE running
    /\ rate' = IF k \in {"+", "="} THEN text_speed_up(rate)
               ELSE IF k = "-" THEN text_speed_down(rate)
               ELSE rate
    /\ UNCHANGED <<iface, rows, cols, new_grid, x, y>>

\* time.sleep(1 / update_rate), then the loop test `while self.running`.
Sleep ==
    /\ iface = "text"
    /\ pc = "sleep"
    /\ pc' = IF running THEN "display" ELSE "done"
    /\ UNCHANGED <<iface, rows, cols, grid, new_grid, x, y, paused, running, rate, key>>

\* ----------------------------------------------------------- gui front end
\* K_UP / K_PLUS / K_KP_PLUS and K_DOWN / K_MINUS / K_KP_MINUS
gui_speed_up(r) == min(max_speed, r + speed_increment)

\* gui_speed_down clamping at min_speed - 1.
gui_speed_down_off(r) == max(min_speed - 1, r - speed_increment)

gui_speed_down(r) == max(min_speed, r - speed_increment)

\* One iteration of handle_events' loop over pygame.event.get(): event e,
\* dispatched to _handle_keydown when it is a KEYDOWN.
HandleEvent(e) ==
    /\ iface = "gui"
    /\ pc = "events"
    /\ pc' = "events"
    /\ key' = e
    /\ paused' = IF e = "K_SPACE" THEN toggle(paused) ELSE paused
    /\ grid' \in (IF e = "K_r" THEN create_grid(TRUE)
                  ELSE IF e = "K_c" THEN create_grid(FALSE)
                  ELSE {grid})
    /\ rate' = IF e \in {"K_UP", "K_PLUS", "K_KP_PLUS"} THEN gui_speed_up(rate)
               ELSE IF e \in {"K_DOWN", "K_MINUS", "K_KP_MINUS"} THEN gui_speed_down(rate)
               ELSE rate
    /\ running' = IF e \in {"QUIT", "K_ESCAPE"} THEN FALSE ELSE running
    /\ UNCHANGED <<iface, rows, cols, new_grid, x, y>>

\* handle_events returns: the event queue is drained.
EventsDone ==
    /\ iface = "gui"
    /\ pc = "events"
    /\ pc' = "advance"
    /\ UNCHANGED <<iface, rows, cols, grid, new_grid, x, y, paused, running, rate, key>>

\* GUIInterface.draw
Draw ==
    /\ iface = "gui"
    /\ pc = "draw"
    /\ pc' = "clock"
    /\ UNCHANGED <<iface, rows, cols, grid, new_grid, x, y, paused, running, rate, key>>

\* clock.tick(fps), then the loop test `while self.running`.
ClockTick ==
    /\ iface = "gui"
    /\ pc = "clock"
    /\ pc' = IF running THEN "events" ELSE "done"
    /\ UNCHANGED <<iface, rows, cols, grid, new_grid, x, y, paused, running, rate, key>>

\* ------------------------------------------------------------ advance step
\* Advance without the test of paused.
AdvanceAlways ==
    /\ pc = "advance"
    /\ key' = NoKey
    /\ pc' = "pass"
    /\ new_grid' = zero_grid(rows, cols)
    /\ x' = 0
    /\ y' = 0
    /\ UNCHANGED <<iface, rows, cols, grid, paused, running, rate>>

\* `if not paused: simulator.next_generation()` of either loop; when not
\* paused, next_generation starts by allocating new_grid (line 129).
Advance ==
    /\ pc = "advance"
    /\ key' = NoKey
    /\ IF paused
       THEN /\ pc' = after_advance(iface)
            /\ UNCHANGED <<new_grid, x, y>>
       ELSE /\ pc' = "pass"
            /\ new_grid' = zero_grid(rows, cols)
            /\ x' = 0
            /\ y' = 0
    /\ UNCHANGED <<iface, rows, cols, grid, paused, running, rate>>

\* The nested loops of next_generation have visited every cell.
PassDone == x >= rows \/ cols <= 0

\* CellStep updating the current grid in place as well.
CellStepInPlace ==
    /\ pc = "pass"
    /\ ~PassDone
    /\ new_grid' = [new_grid EXCEPT ![x][y] = new_cell(x, y)]
    /\ grid' = [grid EXCEPT ![x][y] = new_cell(x, y)]
    /\ IF y + 1 < cols
       THEN x' = x /\ y' = y + 1
       ELSE x' = x + 1 /\ y' = 0
    /\ UNCHANGED <<iface, rows, cols, pc, paused, running, rate, key>>

\* One iteration of the inner loop of next_generation: cell (x, y).
CellStep ==
    /\ pc = "pass"
    /\ ~PassDone
    /\ new_grid' = [new_grid EXCEPT ![x][y] = new_cell(x, y)]
    /\ IF y + 1 < cols
       THEN x' = x /\ y' = y + 1
       ELSE x' = x + 1 /\ y' = 0
    /\ UNCHANGED <<iface, rows, cols, grid, pc, paused, running, rate, key>>

\* `self.grid = new_grid` (line 139), and next_generation returns.
Publish ==
    /\ pc = "pass"
    /\ PassDone
    /\ grid' = new_grid
    /\ new_grid' = << >>
    /\ x' = 0
    /\ y' = 0
    /\ pc' = after_advance(iface)
    /\ UNCHANGED <<iface, rows, cols, paused, running, rate, key>>

\* ---------------------------------------------------------- specifications
Next ==
    \/ Display
    \/ \E k \in TextKeys \cup {NoKey} : HandleInput(k)
    \/ Sleep
    \/ \E e \in GuiEvents : HandleEvent(e)
    \/ EventsDone
    \/ Draw
    \/ ClockTick
    \/ Advance
    \/ CellStep
    \/ Publish

\* Interactive runs of either front end on grids up to MaxRows x MaxCols.
Spec == Init /\ [][Next]_vars

\* Unattended runs (no key is ever pressed, no event ever arrives) on
\* grids up to PassMaxRows x PassMaxCols.
InitPass == Construct(PassMaxRows, PassMaxCols, {"text", "gui"})

NextPass ==
    \/ Display
    \/ HandleInput(NoKey)
    \/ Sleep
    \/ EventsDone
    \/ Draw
    \/ ClockTick
    \/ Advance
    \/ CellStep
    \/ Publish

SpecPass == InitPass /\ [][NextPass]_vars

\* The grid of r rows and c columns whose live cells are those of S.
cell_grid(r, c, S) ==
    [i \in range(r) |-> [j \in range(c) |-> IF <<i, j>> \in S THEN 1 ELSE 0]]

\* The cells of a 2x2 block with top-left cell (i, j), and of the vertical
\* and horizontal 3-cell lines with centre (i, j).
Block(i, j) == {<<i, j>>, <<i, j + 1>>, <<i + 1, j>>, <<i + 1, j + 1>>}
VLine(i, j) == {<<i - 1, j>>, <<i, j>>, <<i + 1, j>>}
HLine(i, j) == {<<i, j - 1>>, <<i, j>>, <<i, j + 1>>}

\* Among the grids create_grid(randomize=True) can return: the empty
\* grid, a single live cell, a 2x2 block and a 3-cell line, anywhere they
\* fit into r rows and c columns.
Patterns(r, c) ==
    LET Cells == range(r) \X range(c)
        Shapes == {{}}
            \cup {{p} : p \in Cells}
            \cup {Block(p[1], p[2]) : p \in Cells}
            \cup {VLine(p[1], p[2]) : p \in Cells}
            \cup {HLine(p[1], p[2]) : p \in Cells}
    IN  {cell_grid(r, c, S) : S \in {T \in Shapes : T \subseteq Cells}}

\* main() when the random initial grid is one of the patterns.
InitPat ==
    /\ rows \in DimArgs(PatMaxRows)
    /\ cols \in DimArgs(PatMaxCols)
    /\ grid \in (create_grid(TRUE) \cap Patterns(rows, cols))
    /\ iface \in Ifaces(rows, cols)
    /\ new_grid = << >>
    /\ x = 0
    /\ y = 0
    /\ pc = loop_top(iface)
    /\ paused = FALSE
    /\ running = TRUE
    /\ rate = default_fps
    /\ key = NoKey

\* Unattended runs from a pattern on grids up to PatMaxRows x PatMaxCols.
SpecPat == InitPat /\ [][NextPass]_vars

\* The process before main() has constructed anything: no simulator and no
\* front end exist yet.
Unset == "unset"

InitMain ==
    /\ pc = "main"
    /\ iface = Unset
    /\ rows = 0
    /\ cols = 0
    /\ grid = << >>
    /\ new_grid = << >>
    /\ x = 0
    /\ y = 0
    /\ paused = Unset
    /\ running = Unset
    /\ rate = Unset
    /\ key = NoKey

\* main() up to the call of interface.run(): the simulator and the front
\* end are constructed, which leaves any state that Construct describes
\* (the sets only enumerate the candidates for it).
Main ==
    /\ pc = "main"
    /\ rows' \in DimArgs(MaxRows)
    /\ cols' \in DimArgs(MaxCols)
    /\ grid' \in Grids(rows', cols')
    /\ iface' \in {"text", "gui"}
    /\ new_grid' = << >>
    /\ x' = 0
    /\ y' = 0
    /\ pc' \in {"display", "events"}
    /\ paused' \in BOOLEAN
    /\ running' \in BOOLEAN
    /\ rate' \in 0 .. (max_speed + 1)
    /\ key' = NoKey
    /\ Construct(MaxRows, MaxCols, {"text", "gui"})'

NextMain ==
    \/ Main
    \/ NextPass

\* Unattended runs from process start, construction included.
SpecMain == InitMain /\ [][NextMain]_vars

TypeOK ==
    /\ iface \in {"text", "gui"}
    /\ grid \in Grids(rows, cols)
    /\ paused \in BOOLEAN
    /\ running \in BOOLEAN
    /\ rate \in Int
    /\ key \in TextKeys \cup GuiEvents \cup {NoKey}
    /\ pc \in {"display", "input", "advance", "pass", "sleep", "events", "draw", "clock", "done"}

\* ------------------------------------------------------------------ claims
\* The live cells of the current grid among the eight positions around
\* (cx, cy) that lie inside the grid.
LiveMoore(cx, cy) ==
    {p \in range(rows) \X range(cols) :
        /\ p # <<cx, cy>>
        /\ p[1] - cx \in {0 - 1, 0, 1}
        /\ p[2] - cy \in {0 - 1, 0, 1}
        /\ grid[p[1]][p[2]] = 1}

IsCorner(cx, cy) == cx \in {0, rows - 1} /\ cy \in {0, cols - 1}
IsEdge(cx, cy) == cx \in {0, rows - 1} \/ cy \in {0, cols - 1}

\* Conway's rule for cell (cx, cy) of the current grid.
LivesOn(cx, cy) ==
    \/ grid[cx][cy] = 1 /\ Cardinality(LiveMoore(cx, cy)) \in {2, 3}
    \/ grid[cx][cy] = 0 /\ Cardinality(LiveMoore(cx, cy)) = 3

\* C1: when next_generation replaces the grid, every cell of the new grid
\* is alive exactly when, in the grid before the call, it was alive with 2
\* or 3 live neighbours or dead with exactly 3; otherwise it is dead.
C1_ConwayRule ==
    [][(pc = "pass" /\ pc' # "pass") =>
         \A cx \in range(rows), cy \in range(cols) :
             /\ grid'[cx][cy] \in {0, 1}
             /\ (grid'[cx][cy] = 1) <=> LivesOn(cx, cy)]_vars

\* A finished pass on a 3x3 grid in which a cell survived, a cell died, a
\* cell was born and a cell stayed dead.
C1_Witness ==
    /\ pc = "pass" /\ PassDone
    /\ rows = 3 /\ cols = 3
    /\ \E a, b, c, d \in range(rows) \X range(cols) :
          /\ grid[a[1]][a[2]] = 1 /\ new_grid[a[1]][a[2]] = 1
          /\ grid[b[1]][b[2]] = 1 /\ new_grid[b[1]][b[2]] = 0
          /\ grid[c[1]][c[2]] = 0 /\ new_grid[c[1]][c[2]] = 1
          /\ grid[d[1]][d[2]] = 0 /\ new_grid[d[1]][d[2]] = 0

\* Cell (cx, cy) has been computed by the pass in progress (row-major).
Visited(cx, cy) == cx < x \/ (cx = x /\ cy < y)

\* C2: while next_generation runs, the current grid is never written; the
\* cells computed so far sit in the separate new_grid and follow the rule
\* applied to the current (old) grid, the cells not yet computed are still
\* 0 there; the current grid changes during a pass only in the single step
\* that ends it, after every cell has been computed.
C2_DoubleBuffer ==
    /\ [](pc = "pass" =>
            /\ new_grid \in Grids(rows, cols)
            /\ \A cx \in range(rows), cy \in range(cols) :
                  new_grid[cx][cy] =
                      IF Visited(cx, cy) /\ LivesOn(cx, cy) THEN 1 ELSE 0)
    /\ [][(pc = "pass" /\ grid' # grid) =>
            (PassDone /\ pc' # "pass" /\ grid' = new_grid)]_vars

\* Mid-pass on a 3x3 grid: a cell already computed changed state and is a
\* neighbour of the cell about to be computed.
C2_Witness ==
    /\ pc = "pass" /\ rows = 3 /\ cols = 3
    /\ x = 1 /\ y = 1
    /\ new_grid[0][0] # grid[0][0]
    /\ new_grid[1][0] # grid[1][0]

\* C3: for every in-bounds cell count_neighbors returns the number of live
\* cells among the Moore positions inside the grid (no wraparound); the
\* result is in 0..8, at most 3 at a corner and at most 5 at a non-corner
\* edge cell.
C3_NeighborCount ==
    \A cx \in range(rows), cy \in range(cols) :
        LET n == count_neighbors(cx, cy)
        IN  /\ n = Cardinality(LiveMoore(cx, cy))
            /\ n \in 0 .. 8
            /\ IsCorner(cx, cy) => n <= 3
            /\ (IsEdge(cx, cy) /\ ~IsCorner(cx, cy)) => n <= 5

\* A full 3x3 grid: the corner counts 3, the edge 5 and the centre 8.
C3_Witness ==
    /\ rows = 3 /\ cols = 3
    /\ count_neighbors(0, 0) = 3
    /\ count_neighbors(0, 1) = 5
    /\ count_neighbors(1, 1) = 8

\* The input step of this transition dispatched key / event k.
Dispatched(k) ==
    \/ pc = "input" /\ key' = k
    \/ pc = "events" /\ pc' = "events" /\ key' = k

\* The commands, as the keys and events bound to them.
TogglePauseKeys == {" ", "K_SPACE"}
ResetRandomKeys == {"r", "R", "K_r"}
ClearKeys == {"c", "C", "K_c"}
SpeedUpKeys == {"+", "=", "K_UP", "K_PLUS", "K_KP_PLUS"}
SpeedDownKeys == {"-", "K_DOWN", "K_MINUS", "K_KP_MINUS"}

IsTogglePause == \E k \in TogglePauseKeys : Dispatched(k)
IsResetRandom == \E k \in ResetRandomKeys : Dispatched(k)
IsClear == \E k \in ClearKeys : Dispatched(k)
IsSpeedUp == \E k \in SpeedUpKeys : Dispatched(k)
IsSpeedDown == \E k \in SpeedDownKeys : Dispatched(k)

\* C4: in every reachable state min_speed <= rate <= max_speed; speed_up
\* at max_speed leaves the rate at max_speed and speed_down at min_speed
\* leaves it at min_speed.
C4_RateBounds ==
    /\ [](min_speed <= rate /\ rate <= max_speed)
    /\ [][/\ (IsSpeedUp /\ rate = max_speed) => rate' = max_speed
          /\ (IsSpeedDown /\ rate = min_speed) => rate' = min_speed]_vars

\* The graphical front end after a speed_down that hit the floor (the rate
\* before it was below min_speed + speed_increment).
C4_Witness ==
    /\ iface = "gui"
    /\ key \in SpeedDownKeys
    /\ rate = min_speed

\* C5 as stated: every front end's speed_up / speed_down steps the rate by
\* speed_increment, clamped to max_speed / min_speed.
C5_Original ==
    [][/\ IsSpeedUp => rate' = min(max_speed, rate + speed_increment)
       /\ IsSpeedDown => rate' = max(min_speed, rate - speed_increment)]_vars

\* The step of each front end's speed commands.
StepOf(m) == IF m = "gui" THEN speed_increment ELSE 1

\* C5 (amended): speed_up sets rate to min(max_speed, rate + step) and
\* speed_down to max(min_speed, rate - step), where step is
\* speed_increment in the graphical front end and 1 in the text front end.
C5_SpeedStep ==
    [][/\ IsSpeedUp => rate' = min(max_speed, rate + StepOf(iface))
       /\ IsSpeedDown => rate' = max(min_speed, rate - StepOf(iface))]_vars

\* The text front end right after "+" took the rate from 10 to 11.
C5_Witness ==
    /\ iface = "text"
    /\ key = "+"
    /\ rate = default_fps + 1

\* C6: the advance step taken while paused leaves the grid and the rate
\* unchanged and does not enter next_generation; next_generation is
\* entered and runs only when paused is false; while paused the grid
\* changes only through reset_random or clear.
C6_PausedTick ==
    /\ [](pc = "pass" => ~paused)
    /\ [][/\ (pc = "advance" /\ paused) =>
                (grid' = grid /\ rate' = rate /\ pc' # "pass")
          /\ (paused /\ grid' # grid) => (IsResetRandom \/ IsClear)]_vars

\* A 2x2 grid that next_generation would change, right after an advance
\* step that was skipped because the front end is paused.
C6_Witness ==
    /\ paused
    /\ pc = after_advance(iface)
    /\ rows = 2 /\ cols = 2
    /\ \E cx \in range(rows), cy \in range(cols) :
          grid[cx][cy] = 1 /\ ~LivesOn(cx, cy)

\* C7: toggle_pause flips paused and changes neither the grid nor the
\* rate; applied twice in a row it restores the original paused value.
C7_TogglePause ==
    /\ [](toggle(toggle(paused)) = paused)
    /\ [][IsTogglePause =>
            /\ paused' = ~paused
            /\ grid' = grid
            /\ rate' = rate]_vars

\* Right after a toggle_pause that paused a run with a live grid.
C7_Witness ==
    /\ key \in TogglePauseKeys
    /\ paused
    /\ \E cx \in range(rows), cy \in range(cols) : grid[cx][cy] = 1

\* C8 as stated: a simulator exists only for rows >= 1 and cols >= 1
\* (construction with other dimensions fails with InvalidDimension).
C8_InvalidDimension ==
    pc \in {"display", "input", "events", "advance", "pass", "sleep", "draw", "clock"}
        => (rows >= 1 /\ cols >= 1)

\* Grid g has the shape of grid h.
SameShape(g, h) ==
    /\ DOMAIN g = DOMAIN h
    /\ \A i \in DOMAIN g : DOMAIN g[i] = DOMAIN h[i]

\* C9: clear, whether running or paused, replaces the grid with an
\* all-dead grid of the same rows and cols and leaves paused and the rate
\* unchanged.
C9_Clear ==
    [][IsClear =>
         /\ SameShape(grid', grid)
         /\ \A i \in DOMAIN grid' : \A j \in DOMAIN grid'[i] : grid'[i][j] = 0
         /\ rows' = rows /\ cols' = cols
         /\ paused' = paused
         /\ rate' = rate]_vars

\* A paused 2x2 run right after clear.
C9_Witness ==
    /\ key \in ClearKeys
    /\ paused
    /\ rows = 2 /\ cols = 2
    /\ grid = zero_grid(2, 2)

\* C10: reset_random, whether running or paused, replaces the grid with a
\* grid of the same rows and cols whose cells are 0 or 1 and leaves paused
\* and the rate unchanged; every grid of that shape is a possible result.
C10_ResetRandom ==
    /\ [][IsResetRandom =>
            /\ SameShape(grid', grid)
            /\ \A i \in DOMAIN grid' : \A j \in DOMAIN grid'[i] : grid'[i][j] \in {0, 1}
            /\ rows' = rows /\ cols' = cols
            /\ paused' = paused
            /\ rate' = rate]_vars
    /\ [](pc = "input" =>
            \A g \in Grids(rows, cols) : ENABLED (grid' = g /\ HandleInput("r")))
    /\ [](pc = "events" =>
            \A g \in Grids(rows, cols) : ENABLED (grid' = g /\ HandleEvent("K_r")))

\* A paused 2x2 run right after reset_random produced the full grid.
C10_Witness ==
    /\ key \in ResetRandomKeys
    /\ paused
    /\ rows = 2 /\ cols = 2
    /\ \A cx \in range(rows), cy \in range(cols) : grid[cx][cy] = 1

\* C11 as stated: in every reachable state the grid has exactly rows rows,
\* every row has exactly cols entries, every cell is 0 or 1, and rows and
\* cols never change.
C11_GridShape ==
    /\ [](/\ Cardinality(DOMAIN grid) = rows
          /\ \A i \in DOMAIN grid :
                /\ Cardinality(DOMAIN grid[i]) = cols
                /\ \A j \in DOMAIN grid[i] : grid[i][j] \in {0, 1})
    /\ [][rows' = rows /\ cols' = cols]_vars

\* C12: right after construction the front end is running and not paused
\* and its rate is the configured default_fps, which lies within
\* min_speed .. max_speed.
C12_InitialState ==
    [][pc = "main" =>
         /\ paused' = FALSE
         /\ running' = TRUE
         /\ rate' = default_fps
         /\ min_speed <= rate' /\ rate' <= max_speed]_vars

\* A freshly constructed graphical front end on a 2x2 grid, before its
\* first event.
C12_Witness ==
    /\ iface = "gui"
    /\ pc = "events"
    /\ key = NoKey
    /\ rows = 2 /\ cols = 2
    /\ paused = FALSE
    /\ rate = default_fps

\* The step in which next_generation replaces the grid.
Publishing == pc = "pass" /\ pc' # "pass"

AllDead(g) == \A i \in DOMAIN g : \A j \in DOMAIN g[i] : g[i][j] = 0
LiveCells(g) == {p \in range(rows) \X range(cols) : g[p[1]][p[2]] = 1}

\* C13: next_generation applied to the all-dead grid yields the all-dead
\* grid of the same shape, whatever the dimensions (so it does again when
\* applied twice).
C13_DeadFixedPoint ==
    [][(Publishing /\ AllDead(grid)) =>
         (AllDead(grid') /\ SameShape(grid', grid))]_vars

\* A finished pass over the all-dead 5x5 grid.
C13_Witness ==
    /\ pc = "pass" /\ PassDone
    /\ rows = 5 /\ cols = 5
    /\ AllDead(grid)
    /\ AllDead(new_grid)

\* C14: next_generation applied to a grid with exactly one live cell,
\* anywhere, yields the all-dead grid.
C14_LoneCellDies ==
    [][(Publishing /\ Cardinality(LiveCells(grid)) = 1) => AllDead(grid')]_vars

\* A finished pass over the 5x5 grid whose only live cell is the centre.
C14_Witness ==
    /\ pc = "pass" /\ PassDone
    /\ rows = 5 /\ cols = 5
    /\ LiveCells(grid) = {<<2, 2>>}
    /\ AllDead(new_grid)

\* C15: a grid whose only live cells form a 2x2 block, anywhere in the
\* grid (corner and edge placements included), is unchanged by
\* next_generation.
C15_BlockStillLife ==
    [][(/\ Publishing
        /\ \E i \in range(rows - 1), j \in range(cols - 1) :
              LiveCells(grid) = Block(i, j))
         => grid' = grid]_vars

\* A finished pass over the 5x5 grid with a block that touches no edge.
C15_Witness ==
    /\ pc = "pass" /\ PassDone
    /\ rows = 5 /\ cols = 5
    /\ LiveCells(grid) = Block(1, 2)
    /\ new_grid = grid

\* C16: a grid whose only live cells are a 3-cell line with its centre
\* off the border oscillates with period 2: next_generation turns the
\* vertical line into the horizontal line through the same centre and the
\* horizontal line into the vertical one (on 5x5, (1,2),(2,2),(3,2)
\* becomes (2,1),(2,2),(2,3)).
C16_Blinker ==
    [][Publishing =>
         \A i \in 1 .. (rows - 2), j \in 1 .. (cols - 2) :
             /\ LiveCells(grid) = VLine(i, j) => LiveCells(grid') = HLine(i, j)
             /\ LiveCells(grid) = HLine(i, j) => LiveCells(grid') = VLine(i, j)]_vars

\* A running front end at the end of the pass over the 5x5 grid with
\* (1,2),(2,2),(3,2) alive: new_grid has exactly (2,1),(2,2),(2,3) alive.
C16_Witness ==
    /\ pc = "pass" /\ PassDone
    /\ ~paused
    /\ rows = 5 /\ cols = 5
    /\ LiveCells(grid) = {<<1, 2>>, <<2, 2>>, <<3, 2>>}
    /\ LiveCells(new_grid) = {<<2, 1>>, <<2, 2>>, <<2, 3>>}

\* Some run of the same step A from the current state ends in a state
\* other than w.
Diverges(A, w) == ENABLED (A /\ vars' # w)

\* C17: a second controller in the same state that receives the same
\* command cannot end in a different state: whenever a step dispatches a
\* key or event other than reset_random, or is a step of the tick, the
\* state it reaches is the only state that step can reach (so equal
\* controllers given equal commands stay equal after every step).
C17_Deterministic ==
    [][\A w \in {vars'} :
         /\ \A k \in (TextKeys \cup {NoKey}) \ ResetRandomKeys :
               (pc = "input" /\ key' = k) => ~Diverges(HandleInput(k), w)
         /\ \A e \in GuiEvents \ ResetRandomKeys :
               (pc = "events" /\ pc' = "events" /\ key' = e)
                   => ~Diverges(HandleEvent(e), w)
         /\ pc = "advance" => ~Diverges(Advance, w)
         /\ (pc = "pass" /\ pc' = "pass") => ~Diverges(CellStep, w)
         /\ Publishing => ~Diverges(Publish, w)]_vars

\* A running text front end on a 2x2 grid right after clear, at full speed.
C17_Witness ==
    /\ iface = "text"
    /\ pc = "advance"
    /\ key \in ClearKeys
    /\ rows = 2 /\ cols = 2
    /\ ~paused
    /\ rate = max_speed

\* The phase of a loop iteration a position belongs to.
Phase(p) ==
    IF p \in {"input", "events"} THEN "input"
    ELSE IF p \in {"advance", "pass"} THEN "advance"
    ELSE IF p \in {"display", "draw"} THEN "render"
    ELSE IF p \in {"sleep", "clock"} THEN "wait"
    ELSE "done"

\* C18 as stated (read on grids with rows >= 1 and cols >= 1): every
\* front end's iteration runs input, advance, render, wait, in this order.
C18_Original ==
    [][(rows >= 1 /\ cols >= 1 /\ Phase(pc') # Phase(pc)) =>
         <<Phase(pc), Phase(pc')>> \in
             {<<"input", "advance">>, <<"advance", "render">>,
              <<"render", "wait">>, <<"wait", "input">>,
              <<"wait", "done">>}]_vars

\* C18 (amended): an iteration of the graphical loop runs input, advance,
\* render, wait; an iteration of the text loop runs render, input,
\* advance, wait. In both the input phase directly precedes the advance
\* phase (a command takes effect before that iteration's tick decision);
\* only the graphical loop renders the grid that results from the
\* iteration's own tick, the text loop renders the grid left by the
\* previous iteration.
C18_LoopOrder ==
    [][Phase(pc') # Phase(pc) =>
         <<Phase(pc), Phase(pc')>> \in
             (IF iface = "gui"
              THEN {<<"input", "advance">>, <<"advance", "render">>,
                    <<"render", "wait">>, <<"wait", "input">>,
                    <<"wait", "done">>}
              ELSE {<<"render", "input">>, <<"input", "advance">>,
                    <<"advance", "wait">>, <<"wait", "render">>,
                    <<"wait", "done">>})]_vars

\* The text loop about to render at the top of a later iteration: the
\* front end is paused, so at least one iteration has read a key.
C18_Witness ==
    /\ iface = "text"
    /\ pc = "display"
    /\ paused
    /\ rows = 2 /\ cols = 2

\* C19: clear leaves the grid all-dead, and an all-dead grid stays
\* all-dead through every step that is not reset_random (tick,
\* toggle_pause, speed_up, speed_down, clear), so after clear the grid is
\* all-dead until reset_random is issued.
C19_ClearedStaysDead ==
    [][/\ IsClear => AllDead(grid')
       /\ (AllDead(grid) /\ ~IsResetRandom) => AllDead(grid')]_vars

\* A running graphical front end on a 2x2 grid right after a tick that
\* left the grid all-dead.
C19_Witness ==
    /\ iface = "gui"
    /\ pc = "draw"
    /\ ~paused
    /\ rows = 2 /\ cols = 2
    /\ AllDead(grid)

\* speed_up / speed_down of the front end that runs.
speed_up(r) == IF iface = "gui" THEN gui_speed_up(r) ELSE text_speed_up(r)
speed_down(r) == IF iface = "gui" THEN gui_speed_down(r) ELSE text_speed_down(r)

\* C20: from every reachable rate, speed_up then speed_down returns the
\* rate exactly when rate + step <= max_speed, and speed_down then
\* speed_up returns it exactly when rate - step >= min_speed (step being
\* that of the front end); after a clamp the pair does not restore the rate.
C20_UpDownRoundTrip ==
    /\ (speed_down(speed_up(rate)) = rate) <=> (rate + StepOf(iface) <= max_speed)
    /\ (speed_up(speed_down(rate)) = rate) <=> (rate - StepOf(iface) >= min_speed)

\* The graphical front end at rate 6 right after speed_up: the rate came
\* from 1, which only the clamp of speed_down reaches from 10, and is not
\* 10 plus a multiple of 5.
C20_Witness ==
    /\ iface = "gui"
    /\ key \in SpeedUpKeys
    /\ rate = min_speed + speed_increment
    /\ (rate - default_fps) % speed_increment # 0

====
